---- MODULE Spec2Model ----
(***************************************************************************)
(* Model of cl_array_ext: the ArrayExt trait on [T; N] (src/src/lib.rs)    *)
(* and the SliceN<T, N> view with its conversions (src/src/slice.rs).      *)
(*                                                                         *)
(* Two specifications share the module, as the two components share no     *)
(* state: Spec drives the SliceN operations over one backing region,       *)
(* SpecArr drives array_split_at / truncate / append over owned arrays.    *)
(*                                                                         *)
(* Memory is modelled at the level the code works at: a reference to a     *)
(* slice or to a SliceN is a fat pointer (address p, length metadata       *)
(* meta), and head, tail and the dereferenced slice are read from the      *)
(* backing storage through that pointer.  The element type T is generic    *)
(* and the code never inspects an element, so regions start with pairwise  *)
(* distinct elements (position i holds i); writes bring in other values.   *)
(***************************************************************************)
EXTENDS Integers, Sequences, FiniteSets

\* ---------------------------------------------------------------- bounds
\* Longest backing region / longest array.
MaxLen == 5
\* Largest const parameter N or M tried; one more than MaxLen, so that a
\* request always exists that the longest region cannot satisfy.
MaxN == MaxLen + 1
\* Number of writes through a mutable view in one behaviour.
MaxWrites == 2
\* Values written through a mutable view: 8 and 9, as in tests::slice_n_mut.
WriteVals == {8, 9}

Iota(n) == [i \in 1..n |-> i]

\* ------------------------------------------------------------ SliceN state
VARIABLES
  mem,      \* backing storage of the region, mem[k] is the element at address k-1
  a,        \* the caller's slice reference, a fat pointer [p, meta]
  b,        \* the current SliceN reference [p, meta, N], or NoView
  mutable,  \* TRUE when b is a &mut SliceN
  ret,      \* what the last fallible call returned
  op,       \* the last operation, [name, M]
  prev,     \* the view the last operation was called on
  expect,   \* the region as the writes performed so far say it should read
  nw        \* number of writes so far

\* ------------------------------------------------------ array-side state
VARIABLES
  pc,       \* "start", "called", "dropped"
  arr_a,    \* self: [T; N]
  arr_b,    \* other: [T; M]
  call,     \* the call made, [name, M]
  out0,     \* first output of array_split_at / output of truncate
  out1,     \* second output of array_split_at
  arr_c,    \* output of append
  live,     \* bindings whose destructor runs when they go out of scope
  drops     \* drops[h]: how many times element h has been dropped

svars == <<mem, a, b, mutable, ret, op, prev, expect, nw>>
avars == <<pc, arr_a, arr_b, call, out0, out1, arr_c, live, drops>>
vars == <<svars, avars>>

\* ============================================================ slice.rs
NoView == [p |-> 0, meta |-> 0, N |-> 0, some |-> FALSE]
View(p, meta, N) == [p |-> p, meta |-> meta, N |-> N, some |-> TRUE]
NoOp == [name |-> "none", M |-> 0, vals |-> <<>>]

\* pub struct NotEnoughEntries
NotEnoughEntries == "NotEnoughEntries"

\* Reading len elements at address p.
ReadMem(p, len) == [i \in 1..len |-> mem[p + i]]

\* #[repr(C)] struct SliceN { head: [T; N], tail: [T] }: head sits at offset
\* 0 and holds N elements, tail follows it and holds meta elements.
head_addr(v) == v.p
tail_addr(v) == v.p + v.N
head(v) == ReadMem(head_addr(v), v.N)
tail(v) == ReadMem(tail_addr(v), v.meta)
TailLen(v) == v.meta

\* The region as read through the caller's slice reference.
Region == ReadMem(a.p, a.meta)

\* from_unchecked with the address moved past the head.
from_unchecked_past_head(slice, N) == View(slice.p + N, slice.meta - N, N)

\* SliceN::from_unchecked / from_unchecked_mut: same address, meta - N.
from_unchecked(slice, N) == View(slice.p, slice.meta - N, N)

\* deref that keeps the tail's length as the slice's length.
deref_tail_len(v) == [p |-> v.p, meta |-> v.meta]

\* Deref / DerefMut for SliceN: same address, meta + N.
deref(v) == [p |-> v.p, meta |-> v.meta + v.N]
DerefSeq(v) == ReadMem(deref(v).p, deref(v).meta)

\* SliceN::increase_unchecked / increase_unchecked_mut: same address,
\* meta - M, and the type becomes SliceN<T, {N + M}>.
increase_unchecked(v, M) == View(v.p, v.meta - M, v.N + M)

\* increase that also rejects a tail of exactly M elements.
increase_le(v, M) ==
  IF TailLen(v) <= M
    THEN [res |-> NotEnoughEntries, view |-> NoView]
    ELSE [res |-> "Ok", view |-> increase_unchecked(v, M)]

\* SliceN::increase / increase_mut.
increase(v, M) ==
  IF TailLen(v) < M
    THEN [res |-> NotEnoughEntries, view |-> NoView]
    ELSE [res |-> "Ok", view |-> increase_unchecked(v, M)]

\* downsize that passes the SliceN's own metadata on as a slice length.
downsize_no_deref(v, M) == from_unchecked([p |-> v.p, meta |-> v.meta], M)

\* SliceN::downsize / downsize_mut: self is deref-coerced to a slice.
downsize(v, M) == from_unchecked(deref(v), M)

\* try_from that also rejects a region of exactly N elements.
try_from_le(value, N) ==
  IF value.meta <= N
    THEN [res |-> NotEnoughEntries, view |-> NoView]
    ELSE [res |-> "Ok", view |-> from_unchecked(value, N)]

\* try_from without the length check.
try_from_no_check(value, N) == [res |-> "Ok", view |-> from_unchecked(value, N)]

\* TryFrom<&[T]> for &SliceN / TryFrom<&mut [T]> for &mut SliceN.
try_from(value, N) ==
  IF value.meta < N
    THEN [res |-> NotEnoughEntries, view |-> NoView]
    ELSE [res |-> "Ok", view |-> from_unchecked(value, N)]

InitSlice ==
  /\ \E L \in 0..MaxLen : mem = Iota(L) /\ a = [p |-> 0, meta |-> L]
  /\ b = NoView
  /\ mutable = FALSE
  /\ ret = "none"
  /\ op = NoOp
  /\ prev = NoView
  /\ expect = mem
  /\ nw = 0

\* let b: &SliceN<_, N> = a.try_into()
TryFrom(N) ==
  /\ LET r == try_from(a, N) IN
       /\ ret' = r.res
       /\ b' = r.view
  /\ mutable' = FALSE
  /\ op' = [name |-> "try_from", M |-> N, vals |-> <<>>]
  /\ prev' = NoView
  /\ UNCHANGED <<mem, a, expect, nw, avars>>

\* let b: &mut SliceN<_, N> = a.try_into()
TryFromMut(N) ==
  /\ LET r == try_from(a, N) IN
       /\ ret' = r.res
       /\ b' = r.view
       /\ mutable' = (r.res = "Ok")
  /\ op' = [name |-> "try_from", M |-> N, vals |-> <<>>]
  /\ prev' = NoView
  /\ UNCHANGED <<mem, a, expect, nw, avars>>

\* let b = b.increase::<M>(): on Ok the result replaces b, on Err b stays.
Increase(M) ==
  /\ b.some
  /\ LET r == increase(b, M) IN
       /\ ret' = r.res
       /\ b' = IF r.res = "Ok" THEN r.view ELSE b
       /\ mutable' = IF r.res = "Ok" THEN FALSE ELSE mutable
  /\ op' = [name |-> "increase", M |-> M, vals |-> <<>>]
  /\ prev' = b
  /\ UNCHANGED <<mem, a, expect, nw, avars>>

\* let b = b.increase_mut::<M>()
IncreaseMut(M) ==
  /\ b.some /\ mutable
  /\ LET r == increase(b, M) IN
       /\ ret' = r.res
       /\ b' = IF r.res = "Ok" THEN r.view ELSE b
  /\ op' = [name |-> "increase", M |-> M, vals |-> <<>>]
  /\ prev' = b
  /\ UNCHANGED <<mem, a, mutable, expect, nw, avars>>

\* let b = b.downsize::<M>(), M <= N by the where clause.
Downsize(M) ==
  /\ b.some
  /\ M <= b.N
  /\ b' = downsize(b, M)
  /\ mutable' = FALSE
  /\ ret' = "none"
  /\ op' = [name |-> "downsize", M |-> M, vals |-> <<>>]
  /\ prev' = b
  /\ UNCHANGED <<mem, a, expect, nw, avars>>

\* let b = b.downsize_mut::<M>()
DownsizeMut(M) ==
  /\ b.some /\ mutable
  /\ M <= b.N
  /\ b' = downsize(b, M)
  /\ ret' = "none"
  /\ op' = [name |-> "downsize", M |-> M, vals |-> <<>>]
  /\ prev' = b
  /\ UNCHANGED <<mem, a, mutable, expect, nw, avars>>

\* Storing len elements at address p.
WriteMem(p, vals) ==
  [k \in DOMAIN mem |-> IF p < k /\ k <= p + Len(vals) THEN vals[k - p] ELSE mem[k]]

\* b.head = vals
WriteHead(vals) ==
  /\ b.some /\ mutable /\ nw < MaxWrites
  /\ Len(vals) = b.N
  /\ mem' = WriteMem(head_addr(b), vals)
  /\ expect' = vals \o SubSeq(expect, b.N + 1, Len(expect))
  /\ nw' = nw + 1
  /\ ret' = "none"
  /\ op' = [name |-> "write_head", M |-> b.N, vals |-> vals]
  /\ prev' = b
  /\ UNCHANGED <<a, b, mutable, avars>>

\* b.tail[i] = v
WriteTail(i, v) ==
  /\ b.some /\ mutable /\ nw < MaxWrites
  /\ i < TailLen(b)
  /\ mem' = WriteMem(tail_addr(b) + i, <<v>>)
  /\ expect' = [expect EXCEPT ![b.N + i + 1] = v]
  /\ nw' = nw + 1
  /\ ret' = "none"
  /\ op' = [name |-> "write_tail", M |-> i, vals |-> <<v>>]
  /\ prev' = b
  /\ UNCHANGED <<a, b, mutable, avars>>

\* b[i] = v, through DerefMut
WriteDeref(i, v) ==
  /\ b.some /\ mutable /\ nw < MaxWrites
  /\ i < deref(b).meta
  /\ mem' = WriteMem(deref(b).p + i, <<v>>)
  /\ expect' = [expect EXCEPT ![i + 1] = v]
  /\ nw' = nw + 1
  /\ ret' = "none"
  /\ op' = [name |-> "write_deref", M |-> i, vals |-> <<v>>]
  /\ prev' = b
  /\ UNCHANGED <<a, b, mutable, avars>>

Next ==
  \/ \E N \in 0..MaxN : TryFrom(N)
  \/ \E N \in 0..MaxN : TryFromMut(N)
  \/ \E M \in 0..MaxN : Increase(M)
  \/ \E M \in 0..MaxN : IncreaseMut(M)
  \/ \E M \in 0..MaxN : Downsize(M)
  \/ \E M \in 0..MaxN : DownsizeMut(M)
  \/ \E n \in 0..MaxN : \E vals \in [1..n -> WriteVals] : WriteHead(vals)
  \/ \E i \in 0..MaxLen : \E v \in WriteVals : WriteTail(i, v)
  \/ \E i \in 0..MaxLen : \E v \in WriteVals : WriteDeref(i, v)

\* ============================================================== lib.rs
\* Elements of the arrays are resource handles: the element at position i
\* of self is handle i, the element at position j of other is handle N + j.
\* A bitwise copy of an element is the same handle held in a second place.
Uninit == 0

\* core::ptr::read(arr.as_ptr().add(off).cast::<[T; K]>())
PtrRead(arr, off, K) == [i \in 1..K |-> arr[off + i]]

\* core::ptr::copy(src.as_ptr(), dst.add(off), count)
PtrCopy(dst, src, off, count) ==
  [k \in DOMAIN dst |-> IF off < k /\ k <= off + count THEN src[k - off] ELSE dst[k]]

\* core::mem::MaybeUninit::<[T; K]>::uninit()
MaybeUninit(K) == [k \in 1..K |-> Uninit]

\* A plain binding instead of ManuallyDrop: the destructor still runs.
ManuallyDropMissing(bindings, name) == bindings

\* core::mem::ManuallyDrop::new(binding): the binding's destructor will not run.
ManuallyDropNew(bindings, name) == bindings \ {name}

\* array_split_at reading the second array from the start of the input.
array_split_at_add0(self, M) ==
  <<PtrRead(self, 0, M), PtrRead(self, 0, Len(self) - M)>>

\* <[T; N] as ArrayExt>::array_split_at::<M>
array_split_at(self, M) ==
  <<PtrRead(self, 0, M), PtrRead(self, M, Len(self) - M)>>

\* ArrayExt::truncate::<M>
truncate(self, M) == array_split_at(self, M)[1]

\* append copying other to p.add(M) instead of p.add(N).
append_add_M(self, other) ==
  LET N == Len(self)
      M == Len(other)
      c0 == MaybeUninit(N + M)
      c1 == PtrCopy(c0, self, 0, N)
      c2 == PtrCopy(c1, other, M, M)
  IN  c2

\* append copying other first and self after it.
append_swapped(self, other) ==
  LET N == Len(self)
      M == Len(other)
      c0 == MaybeUninit(N + M)
      c1 == PtrCopy(c0, other, 0, M)
      c2 == PtrCopy(c1, self, M, N)
  IN  c2

\* <[T; N] as ArrayExt>::append::<M>
append(self, other) ==
  LET N == Len(self)
      M == Len(other)
      c0 == MaybeUninit(N + M)
      c1 == PtrCopy(c0, self, 0, N)
      c2 == PtrCopy(c1, other, N, M)
  IN  c2

\* Number of places of the sequence s that hold handle h.
Occ(h, s) == Cardinality({i \in DOMAIN s : s[i] = h})

\* Number of places, in bindings whose destructor will run, that hold h.
Owners(h) ==
    (IF "self"  \in live THEN Occ(h, arr_a) ELSE 0)
  + (IF "other" \in live THEN Occ(h, arr_b) ELSE 0)
  + (IF "out0"  \in live THEN Occ(h, out0)  ELSE 0)
  + (IF "out1"  \in live THEN Occ(h, out1)  ELSE 0)
  + (IF "arr_c" \in live THEN Occ(h, arr_c) ELSE 0)

\* Dropping an array drops each of its elements once.
DropArray(d, s) == [h \in DOMAIN d |-> d[h] + Occ(h, s)]

InitArr ==
  /\ pc = "start"
  /\ \E N \in 0..MaxLen, M \in 0..MaxLen :
       /\ arr_a = Iota(N)
       /\ arr_b = [j \in 1..M |-> N + j]
       /\ drops = [h \in 1..(N + M) |-> 0]
  /\ call = NoOp
  /\ out0 = <<>> /\ out1 = <<>> /\ arr_c = <<>>
  /\ live = {"self", "other"}

\* let (out0, out1) = arr_a.array_split_at::<M>(), M <= N by the where clause.
ArraySplitAt(M) ==
  /\ pc = "start"
  /\ M <= Len(arr_a)
  /\ out0' = array_split_at(arr_a, M)[1]
  /\ out1' = array_split_at(arr_a, M)[2]
  /\ live' = ManuallyDropNew(live, "self") \cup {"out0", "out1"}
  /\ call' = [name |-> "array_split_at", M |-> M, vals |-> <<>>]
  /\ pc' = "called"
  /\ UNCHANGED <<arr_a, arr_b, arr_c, drops, svars>>

\* let out0 = arr_a.truncate::<M>(): the second array of the split is a
\* temporary, dropped before truncate returns.
Truncate(M) ==
  /\ pc = "start"
  /\ M <= Len(arr_a)
  /\ out0' = truncate(arr_a, M)
  /\ drops' = DropArray(drops, array_split_at(arr_a, M)[2])
  /\ live' = ManuallyDropNew(live, "self") \cup {"out0"}
  /\ call' = [name |-> "truncate", M |-> M, vals |-> <<>>]
  /\ pc' = "called"
  /\ UNCHANGED <<arr_a, arr_b, out1, arr_c, svars>>

\* let arr_c = arr_a.append(arr_b)
AppendCall ==
  /\ pc = "start"
  /\ arr_c' = append(arr_a, arr_b)
  /\ live' = ManuallyDropNew(ManuallyDropNew(live, "self"), "other") \cup {"arr_c"}
  /\ call' = [name |-> "append", M |-> Len(arr_b), vals |-> <<>>]
  /\ pc' = "called"
  /\ UNCHANGED <<arr_a, arr_b, out0, out1, drops, svars>>

\* let (x, y) = arr_a.array_split_at::<M>(); let arr_c = x.append(y);
\* x and y are moved into append, which wraps them in ManuallyDrop.
SplitThenAppend(M) ==
  /\ pc = "start"
  /\ M <= Len(arr_a)
  /\ LET s == array_split_at(arr_a, M) IN
       /\ out0' = s[1]
       /\ out1' = s[2]
       /\ arr_c' = append(s[1], s[2])
  /\ live' = ManuallyDropNew(live, "self") \cup {"arr_c"}
  /\ call' = [name |-> "split_then_append", M |-> M, vals |-> <<>>]
  /\ pc' = "called"
  /\ UNCHANGED <<arr_a, arr_b, drops, svars>>

\* The caller's scope ends: every binding still owned is dropped.
ScopeEnd ==
  /\ pc = "called"
  /\ drops' = [h \in DOMAIN drops |-> drops[h] + Owners(h)]
  /\ live' = {}
  /\ pc' = "dropped"
  /\ UNCHANGED <<arr_a, arr_b, call, out0, out1, arr_c, svars>>

NextA ==
  \/ \E M \in 0..MaxLen : ArraySplitAt(M)
  \/ \E M \in 0..MaxLen : Truncate(M)
  \/ AppendCall
  \/ \E M \in 0..MaxLen : SplitThenAppend(M)
  \/ ScopeEnd

\* ------------------------------------------------------- specifications
\* Each component idles while the other is driven.
IdleArr ==
  /\ pc = "start"
  /\ arr_a = <<>> /\ arr_b = <<>>
  /\ call = NoOp
  /\ out0 = <<>> /\ out1 = <<>> /\ arr_c = <<>>
  /\ live = {}
  /\ drops = <<>>

IdleSlice ==
  /\ mem = <<>> /\ a = [p |-> 0, meta |-> 0]
  /\ b = NoView
  /\ mutable = FALSE
  /\ ret = "none"
  /\ op = NoOp
  /\ prev = NoView
  /\ expect = <<>>
  /\ nw = 0

Init == InitSlice /\ IdleArr
Spec == Init /\ [][Next]_vars

InitA == InitArr /\ IdleSlice
SpecArr == InitA /\ [][NextA]_vars

\* ================================================================ claims
\* ---- checked under SpecArr

\* C1: array_split_at::<M>(A) = (A[0..M], A[M..N]) for every A of length N
\* and 0 <= M <= N: M and N - M elements in the original order; with M = 0
\* the first output is empty and the second is A, with M = N the first is A
\* and the second is empty.
C1_SplitAt ==
  call.name = "array_split_at" =>
    LET N == Len(arr_a)
        M == call.M
    IN  /\ Len(out0) = M
        /\ Len(out1) = N - M
        /\ out0 = SubSeq(arr_a, 1, M)
        /\ out1 = SubSeq(arr_a, M + 1, N)
        /\ (M = 0 => out0 = <<>> /\ out1 = arr_a)
        /\ (M = N => out0 = arr_a /\ out1 = <<>>)

\* split_at::<3>([1,2,3,4,5]) = ([1,2,3],[4,5]), as in tests::split_at.
C1_Witness ==
  /\ call.name = "array_split_at" /\ call.M = 3
  /\ arr_a = <<1, 2, 3, 4, 5>>
  /\ out0 = <<1, 2, 3>> /\ out1 = <<4, 5>>

\* C2: append(A, B) has length N + M and is A followed by B: positions
\* [0, N) hold A's elements in order, positions [N, N + M) hold B's.
C2_Append ==
  call.name = "append" =>
    LET N == Len(arr_a)
        M == Len(arr_b)
    IN  /\ Len(arr_c) = N + M
        /\ arr_c = arr_a \o arr_b
        /\ \A i \in 1..N : arr_c[i] = arr_a[i]
        /\ \A j \in 1..M : arr_c[N + j] = arr_b[j]

\* append([1,2,3],[4,5]) = [1,2,3,4,5], as in tests::append.
C2_Witness ==
  /\ call.name = "append"
  /\ arr_a = <<1, 2, 3>> /\ arr_b = <<4, 5>>
  /\ arr_c = <<1, 2, 3, 4, 5>>

\* C3: round trip: appending the two outputs of array_split_at::<M>(A), in
\* order, gives back A.
C3_RoundTrip ==
  call.name = "split_then_append" => arr_c = arr_a

C3_Witness ==
  /\ call.name = "split_then_append" /\ call.M = 2
  /\ Len(arr_a) = 5 /\ Len(out0) = 2 /\ Len(out1) = 3
  /\ arr_c = <<1, 2, 3, 4, 5>>

\* C10: ownership moves exactly once: after array_split_at every element of
\* A is held by exactly one place of the two outputs and the input's
\* destructor is suppressed; after append every element of A and B is held
\* by exactly one place of the result and neither input's destructor runs;
\* so when the scope ends every element has been dropped exactly once.
C10_Ownership ==
  /\ (pc = "called" /\ call.name = "array_split_at") =>
        /\ "self" \notin live
        /\ \A h \in 1..Len(arr_a) : Occ(h, out0) + Occ(h, out1) = 1
        /\ \A h \in 1..Len(arr_a) : Owners(h) = 1
  /\ (pc = "called" /\ call.name = "append") =>
        /\ "self" \notin live /\ "other" \notin live
        /\ \A h \in 1..(Len(arr_a) + Len(arr_b)) : Occ(h, arr_c) = 1 /\ Owners(h) = 1
  /\ (pc = "dropped" /\ call.name \in {"array_split_at", "append"}) =>
        \A h \in DOMAIN drops : drops[h] = 1

C10_Witness ==
  /\ pc = "dropped" /\ call.name = "array_split_at" /\ call.M = 3
  /\ Len(arr_a) = 5 /\ Len(arr_b) = 2
  /\ \A h \in 1..7 : drops[h] = 1

\* ---- checked under Spec

\* C4: checked construction of a SliceN<T, N> from a region of length L
\* succeeds iff L >= N; then head = region[0..N], tail = region[N..L]
\* (empty when L = N) and the dereferenced slice has length L and equals
\* the region.
C4_TryFrom ==
  op.name = "try_from" =>
    LET N == op.M
        L == a.meta
    IN  /\ (ret = "Ok") <=> (L >= N)
        /\ ret = "Ok" =>
             /\ b.some /\ b.N = N
             /\ head(b) = SubSeq(Region, 1, N)
             /\ tail(b) = SubSeq(Region, N + 1, L)
             /\ (L = N => tail(b) = <<>>)
             /\ Len(DerefSeq(b)) = L
             /\ DerefSeq(b) = Region

\* [1,2,3,4,5] as SliceN<_, 3>: head [1,2,3], tail [4,5], as in tests::slice_n.
C4_Witness ==
  /\ op.name = "try_from" /\ op.M = 3 /\ ret = "Ok"
  /\ Region = <<1, 2, 3, 4, 5>>
  /\ head(b) = <<1, 2, 3>> /\ tail(b) = <<4, 5>>

\* C5: increase::<M> on a SliceN<T, N> with tail length T succeeds iff
\* T >= M and then gives a SliceN<T, N + M> with head = old head ++ old
\* tail[0..M] and tail = old tail[M..T]; it returns NotEnoughEntries iff
\* T < M.
C5_Increase ==
  op.name = "increase" =>
    LET M == op.M
        T == TailLen(prev)
    IN  /\ (ret = "Ok") <=> (T >= M)
        /\ (ret = NotEnoughEntries) <=> (T < M)
        /\ ret = "Ok" =>
             /\ b.N = prev.N + M
             /\ head(b) = head(prev) \o SubSeq(tail(prev), 1, M)
             /\ tail(b) = SubSeq(tail(prev), M + 1, T)
        /\ ret = NotEnoughEntries => b = prev

\* increase::<2> on head [1,2,3], tail [4,5] gives head [1,2,3,4,5], tail [].
C5_Witness ==
  /\ op.name = "increase" /\ op.M = 2 /\ ret = "Ok"
  /\ prev.N = 3 /\ TailLen(prev) = 2
  /\ head(b) = <<1, 2, 3, 4, 5>> /\ tail(b) = <<>>

\* C6: downsize::<M> on a SliceN<T, N>, 0 <= M <= N, gives a SliceN<T, M>
\* with head = old head[0..M] and tail = old head[M..N] ++ old tail, and
\* changes no element of the region.
C6_Downsize ==
  op.name = "downsize" =>
    LET M == op.M
        N == prev.N
    IN  /\ b.some /\ b.N = M
        /\ head(b) = SubSeq(head(prev), 1, M)
        /\ tail(b) = SubSeq(head(prev), M + 1, N) \o tail(prev)
        /\ Region = expect

\* downsize::<2> on head [1,2,3], tail [4,5] gives head [1,2], tail [3,4,5].
C6_Witness ==
  /\ op.name = "downsize" /\ op.M = 2 /\ prev.N = 3
  /\ head(b) = <<1, 2>> /\ tail(b) = <<3, 4, 5>>

\* C7: for every view reached from a successful construction by increase
\* and downsize steps, head ++ tail is the region, the dereferenced slice
\* has length N + len(tail) = L and equals the region, and it follows the
\* current boundary; only the boundary moves.
C7_ViewInvariant ==
  b.some =>
    /\ head(b) \o tail(b) = Region
    /\ Len(head(b)) = b.N
    /\ deref(b).meta = b.N + Len(tail(b))
    /\ deref(b).meta = a.meta
    /\ DerefSeq(b) = Region
    /\ b.p = a.p

\* A view widened to 5 and then narrowed to 1 over a region of length 5.
C7_Witness ==
  /\ op.name = "downsize" /\ prev.N = 5 /\ b.N = 1
  /\ a.meta = 5 /\ TailLen(b) = 4
  /\ Len(DerefSeq(b)) = 5

\* C8: construction from a region of length L < N returns NotEnoughEntries,
\* gives no view and leaves the region's elements and length as they were;
\* no fallible call returns any other error.
C8_TryFromErr ==
  /\ ret \in {"none", "Ok", NotEnoughEntries}
  /\ (op.name = "try_from" /\ a.meta < op.M) =>
        /\ ret = NotEnoughEntries
        /\ ~b.some
        /\ Len(mem) = a.meta
        /\ Region = expect

\* <&SliceN<_, 6>>::try_from of a region of length 5, as in tests::slice_n.
C8_Witness ==
  /\ op.name = "try_from" /\ op.M = 6 /\ a.meta = 5
  /\ ret = NotEnoughEntries /\ ~b.some /\ ~mutable

\* C9: writes through a mutable view are writes to the region: assigning
\* the head of a SliceN<T, K> replaces exactly region[0..K], writing the
\* tail changes only region[K..L], and the region read through the
\* caller's reference is the result of applying the writes in order.
C9_WriteThrough ==
  /\ Region = expect
  /\ op.name = "write_head" => SubSeq(Region, 1, op.M) = op.vals
  /\ op.name = "write_tail" => Region[prev.N + op.M + 1] = op.vals[1]
  /\ op.name = "write_deref" => Region[op.M + 1] = op.vals[1]

\* [1,2,3,4,5]: head := [8,8,9] on the SliceN<_, 3>, then head := [9,8] on
\* its downsize_mut::<2>, reads [9,8,9,4,5] (the shape of tests::slice_n_mut).
C9_Witness ==
  /\ op.name = "write_head" /\ op.vals = <<9, 8>> /\ nw = 2
  /\ Region = <<9, 8, 9, 4, 5>>
====
